---- MODULE Spec2Model ----
(***************************************************************************)
(* The groceries dashboard (src/dashboard.py) as a state machine.          *)
(*                                                                         *)
(* The dashboard is a script that the UI framework runs from top to bottom *)
(* once when a session starts and again after every widget change.  One    *)
(* action of the model is one widget change followed by the whole rerun.   *)
(* The state is the loaded data, the widget values, the memo table of      *)
(* generate_rules and the values the last run computed.                    *)
(*                                                                         *)
(* Item labels are strings of characters, modelled as sequences of         *)
(* one-character strings, so that ', '.join and str.split(", ") are        *)
(* modelled by what they do to the characters.                             *)
(*                                                                         *)
(* Numbers that the code holds as floats (support, confidence, lift,       *)
(* percentages) are exact fractions <<numerator, denominator>>; slider     *)
(* values are integers in hundredths.                                      *)
(***************************************************************************)
EXTENDS Integers, Sequences, FiniteSets, TLC

VARIABLES
    data,                   \* load_data(): the rows of Groceries_dataset.csv, as a bag
    date_range,             \* sidebar date_input: <<first day, last day>>
    selected_items_sidebar, \* sidebar multiselect
    filtered_data,          \* the rows that pass the sidebar filters, as a bag
    basket_oh,              \* row (Member_number) -> column (item label) -> 0/1
    item_cols_filtered,     \* basket_oh.columns
    cache,                  \* st.cache_data memo of generate_rules: key -> rule table
    rules,                  \* the rule table of the last run
    status,                 \* "ok": the run reached the end; "exception": it raised
    repeat_status,          \* tab 4: class ("Repeat"/"First-time") -> number of customers
    top_items,              \* tab 6: the columns of the co-occurrence matrix
    co_occurrence_pct,      \* tab 6: <<i, j>> -> percentage, a fraction
    selected_items,         \* tab 7 multiselect
    min_conf,               \* tab 7 slider, in hundredths
    min_lift,               \* tab 7 slider, in hundredths
    matcher_ran,            \* tab 7: whether the rule filter of line 220 was evaluated
    recommended_rules,      \* tab 7: the rules passing the filter
    top_recs,               \* tab 7: the displayed rows
    suggested_items,        \* tab 7: the "Suggested items" line
    notice                  \* what the run showed in place of a result

vars == <<data, date_range, selected_items_sidebar, filtered_data, basket_oh,
          item_cols_filtered, cache, rules, status, repeat_status, top_items,
          co_occurrence_pct, selected_items, min_conf, min_lift, matcher_ran,
          recommended_rules, top_recs, suggested_items, notice>>

(***************************************************************************)
(* Bounds of the model.                                                    *)
(***************************************************************************)
MaxRows == 2            \* rows of the CSV file (Spec)
MaxExtraRows == 1       \* rows of the CSV file beyond the full basket (SpecRecs)
MaxCacheEntries == 2    \* distinct basket matrices one server process sees

(***************************************************************************)
(* Program constants.                                                      *)
(***************************************************************************)
MinSupportPct == 1      \* apriori(min_support=0.01), in hundredths
MinLiftThreshold == 1   \* association_rules(metric="lift", min_threshold=1)
TopCoItems == 20        \* head(20) of the co-occurrence tab
TopRecs == 10           \* head(10) of the recommendation tab
DefaultMinConf == 30    \* slider default 0.3, in hundredths
DefaultMinLift == 100   \* slider default 1.0, in hundredths

(***************************************************************************)
(* The input domain: customers, days and item labels of the CSV file.      *)
(* The third label holds the two characters that the rule text uses as its *)
(* delimiter; the second holds the first as a substring.                   *)
(***************************************************************************)
Members == {1, 2}
Dates == {1, 2}
Delimiter == <<",", " ">>
LabelM == <<"m">>
LabelWM == <<"w", "m">>
LabelMW == <<"m", ",", " ", "w">>
ItemLabels == {LabelM, LabelWM, LabelMW}
ConfChoices == {DefaultMinConf, 100}
LiftChoices == {DefaultMinLift, 200}

RowUniverse ==
    [Member_number : Members, Date : Dates, itemDescription : ItemLabels]

(***************************************************************************)
(* Bags of rows: a function from the rows present to their multiplicity.   *)
(***************************************************************************)
NoRows == [r \in {} |-> 0]

AddRow(b, r) ==
    [x \in DOMAIN b \cup {r} |->
        IF x = r THEN (IF r \in DOMAIN b THEN b[r] + 1 ELSE 1) ELSE b[x]]

\* The bags made from b0 by adding up to k rows.
RECURSIVE BagsFrom(_, _)
BagsFrom(b0, k) ==
    IF k = 0 THEN {b0}
    ELSE LET prev == BagsFrom(b0, k - 1)
         IN  prev \cup {AddRow(b, r) : b \in prev, r \in RowUniverse}

\* Files of up to MaxRows rows over the two labels without the delimiter.
PlainLabels == {LabelM, LabelWM}

DataSets ==
    {d \in BagsFrom(NoRows, MaxRows) \ {NoRows} :
        {r.itemDescription : r \in DOMAIN d} \subseteq PlainLabels}

\* Files in which customer 1 buys every label on day 1, and up to
\* MaxExtraRows further rows.
FullBasket ==
    [r \in {[Member_number |-> 1, Date |-> 1, itemDescription |-> i] :
                i \in ItemLabels} |-> 1]

RichDataSets == BagsFrom(FullBasket, MaxExtraRows)

RECURSIVE SumOver(_, _)
SumOver(f, S) ==
    IF S = {} THEN 0
    ELSE LET x == CHOOSE y \in S : TRUE
         IN  f[x] + SumOver(f, S \ {x})

Restrict(b, S) == [r \in S |-> b[r]]

(***************************************************************************)
(* load_data: order_id is a copy of Member_number.                         *)
(***************************************************************************)
order_id(r) == r.Member_number

MinDate(d) == CHOOSE x \in {r.Date : r \in DOMAIN d} :
                  \A r \in DOMAIN d : x <= r.Date
MaxDate(d) == CHOOSE x \in {r.Date : r \in DOMAIN d} :
                  \A r \in DOMAIN d : x >= r.Date

item_cols(d) == {r.itemDescription : r \in DOMAIN d}

(***************************************************************************)
(* The sidebar filters: the date range, both ends inclusive, then the item *)
(* subset when one is selected.                                            *)
(***************************************************************************)
FilterData(d, range, items) ==
    LET inRange == {r \in DOMAIN d : r.Date >= range[1] /\ r.Date <= range[2]}
        kept == IF items # {}
                THEN {r \in inRange : r.itemDescription \in items}
                ELSE inRange
    IN  Restrict(d, kept)

(***************************************************************************)
(* The one-hot basket: groupby([Member_number, itemDescription]).count(),  *)
(* unstack, fillna(0), then every cell x becomes 1 if x > 0 else 0.        *)
(***************************************************************************)
GroupCount(fd, m, i) ==
    SumOver(fd, {r \in DOMAIN fd : r.Member_number = m /\ r.itemDescription = i})

\* Mutant: the count is kept as it is.
PresenceFlagCount(x) == x

PresenceFlag(x) == IF x > 0 THEN 1 ELSE 0

Basket(fd) ==
    [m \in {r.Member_number : r \in DOMAIN fd} |->
        [i \in {r.itemDescription : r \in DOMAIN fd} |->
            PresenceFlag(GroupCount(fd, m, i))]]

Columns(b) == IF DOMAIN b = {} THEN {}
              ELSE DOMAIN b[CHOOSE m \in DOMAIN b : TRUE]

(***************************************************************************)
(* The offline script (src/groceries.py): the transaction key is the       *)
(* customer number, "_" and the date; the basket is the same grouping by   *)
(* that key, its cells the booleans count > 0.                             *)
(***************************************************************************)
Transaction(r) == <<r.Member_number, "_", r.Date>>

basket(d) ==
    [t \in {Transaction(r) : r \in DOMAIN d} |->
        [i \in {r.itemDescription : r \in DOMAIN d} |->
            SumOver(d, {r \in DOMAIN d :
                           Transaction(r) = t /\ r.itemDescription = i}) > 0]]

(***************************************************************************)
(* Strings.  Join is ', '.join(list); Split is str.split(", "): the text   *)
(* is cut at every occurrence of the delimiter, scanning from the left.    *)
(* Contains is Python's substring test "a in s" on two strings.            *)
(***************************************************************************)
RECURSIVE Join(_)
Join(ls) ==
    IF Len(ls) = 0 THEN <<>>
    ELSE IF Len(ls) = 1 THEN ls[1]
    ELSE ls[1] \o Delimiter \o Join(Tail(ls))

DelimiterAt(s, i) ==
    /\ i + Len(Delimiter) - 1 <= Len(s)
    /\ SubSeq(s, i, i + Len(Delimiter) - 1) = Delimiter

FirstDelimiter(s) ==
    IF \E i \in 1..Len(s) : DelimiterAt(s, i)
    THEN CHOOSE i \in 1..Len(s) :
             DelimiterAt(s, i) /\ \A j \in 1..(i - 1) : ~DelimiterAt(s, j)
    ELSE 0

RECURSIVE Split(_)
Split(s) ==
    LET i == FirstDelimiter(s)
    IN  IF i = 0 THEN <<s>>
        ELSE <<SubSeq(s, 1, i - 1)>>
             \o Split(SubSeq(s, i + Len(Delimiter), Len(s)))

Contains(s, a) ==
    \E i \in 1..(Len(s) + 1) :
        /\ i + Len(a) - 1 <= Len(s)
        /\ SubSeq(s, i, i + Len(a) - 1) = a

Range(q) == {q[k] : k \in DOMAIN q}

(***************************************************************************)
(* The iteration order of a frozenset of strings is not defined by the     *)
(* language: it follows the strings' hashes, which are salted per process. *)
(* An order is a permutation of the labels; list(x) lists the members of x *)
(* in that order.                                                          *)
(***************************************************************************)
SetOrders == {<<LabelM, LabelMW, LabelWM>>, <<LabelWM, LabelMW, LabelM>>}

ListOf(x, ord) == SelectSeq(ord, LAMBDA l : l \in x)

\* The columns of the basket are in sorted label order (groupby sorts).
SortedLabels == <<LabelM, LabelMW, LabelWM>>

Pos(ord, l) == CHOOSE k \in DOMAIN ord : ord[k] = l

RECURSIVE Mask(_, _)
Mask(x, ord) ==
    IF x = {} THEN 0
    ELSE LET l == CHOOSE y \in x : TRUE
         IN  2 ^ (Pos(ord, l) - 1) + Mask(x \ {l}, ord)

(***************************************************************************)
(* generate_rules.  apriori keeps the itemsets contained in at least       *)
(* min_support of the basket rows; association_rules splits every frequent *)
(* itemset of two or more items into antecedent and consequent and keeps   *)
(* the rules whose lift reaches the threshold; it raises ValueError when   *)
(* there is no frequent itemset at all.  Lines 69-70 then replace the two  *)
(* frozensets by their joined text.                                        *)
(*                                                                         *)
(* ante_items and cons_items record the frozensets that the text was made  *)
(* from.  The program does not keep them and no operation reads them; they *)
(* are there for stating properties of the text.                           *)
(***************************************************************************)
SupportCount(b, x) ==
    Cardinality({m \in DOMAIN b : \A i \in x : b[m][i] = 1})

FrequentItemsets(b) ==
    {x \in SUBSET Columns(b) \ {{}} :
        SupportCount(b, x) * 100 >= MinSupportPct * Cardinality(DOMAIN b)}

RulePairs(b) ==
    LET n == Cardinality(DOMAIN b)
        cand == UNION {{<<a, x \ a>> : a \in SUBSET x \ {{}, x}} :
                          x \in {y \in FrequentItemsets(b) : Cardinality(y) >= 2}}
    IN  {p \in cand :
            SupportCount(b, p[1] \cup p[2]) * n
                >= MinLiftThreshold * SupportCount(b, p[1]) * SupportCount(b, p[2])}

\* The place of a rule in the table: by itemset size, then itemset, then
\* antecedent size from large to small, then antecedent in iteration order.
RuleRank(p, ord) ==
    LET w == 2 ^ Cardinality(ItemLabels)
        x == p[1] \cup p[2]
    IN  ((Cardinality(x) * w + Mask(x, SortedLabels)) * w
            + (Cardinality(x) - Cardinality(p[1]))) * w + Mask(p[1], ord)

JoinItems(x, ord) == Join(ListOf(x, ord))

RuleRow(b, p, ord) ==
    LET n == Cardinality(DOMAIN b)
        cAC == SupportCount(b, p[1] \cup p[2])
        cA == SupportCount(b, p[1])
        cC == SupportCount(b, p[2])
    IN  [antecedents |-> JoinItems(p[1], ord),
         consequents |-> JoinItems(p[2], ord),
         support     |-> <<cAC, n>>,
         confidence  |-> <<cAC, cA>>,
         lift        |-> <<cAC * n, cA * cC>>,
         ante_items  |-> p[1],
         cons_items  |-> p[2]]

RECURSIVE RankedSeq(_, _)
RankedSeq(ps, ord) ==
    IF ps = {} THEN <<>>
    ELSE LET p == CHOOSE q \in ps :
                      \A q2 \in ps : RuleRank(q, ord) <= RuleRank(q2, ord)
         IN  <<p>> \o RankedSeq(ps \ {p}, ord)

RulesRaise(b) == FrequentItemsets(b) = {}

GenerateRules(b, ord) ==
    LET ps == RankedSeq(RulePairs(b), ord)
    IN  [k \in 1..Len(ps) |-> RuleRow(b, ps[k], ord)]

(***************************************************************************)
(* The memo of generate_rules: st.cache_data keys an entry by the hash of  *)
(* the argument, here the content of the basket matrix (index, columns and *)
(* cells).                                                                 *)
(***************************************************************************)
\* Mutant: the key is the row index alone.
CacheKeyIndexOnly(b) == DOMAIN b

CacheKey(b) == b

NoCache == [k \in {} |-> <<>>]

CachePut(cch, k, v) == [x \in DOMAIN cch \cup {k} |-> IF x = k THEN v ELSE cch[x]]

(***************************************************************************)
(* Tab 4, customer behaviour: the distinct order_id values per customer,   *)
(* "Repeat" if more than one, and the number of customers per class.       *)
(***************************************************************************)
cust_orders(fd) ==
    [m \in {r.Member_number : r \in DOMAIN fd} |->
        Cardinality({order_id(r) : r \in {x \in DOMAIN fd : x.Member_number = m}})]

RepeatClass(x) == IF x > 1 THEN "Repeat" ELSE "First-time"

RepeatStatus(fd) ==
    LET co == cust_orders(fd)
    IN  [c \in {RepeatClass(co[m]) : m \in DOMAIN co} |->
            Cardinality({m \in DOMAIN co : RepeatClass(co[m]) = c})]

(***************************************************************************)
(* Tab 6, co-occurrence: the head(20) of the items by column sum, the      *)
(* product of the transposed matrix with itself over those columns, and    *)
(* each cell divided by the number of basket rows, times 100.              *)
(***************************************************************************)
ItemFreq(b, i) == SumOver([m \in DOMAIN b |-> b[m][i]], DOMAIN b)

Min(a, b) == IF a <= b THEN a ELSE b

\* sort_values leaves the order of equal sums open: any head is possible.
TopItemSets(b) ==
    {S \in SUBSET Columns(b) :
        /\ Cardinality(S) = Min(TopCoItems, Cardinality(Columns(b)))
        /\ \A i \in S : \A j \in Columns(b) \ S : ItemFreq(b, i) >= ItemFreq(b, j)}

CoOccurrence(b, i, j) == SumOver([m \in DOMAIN b |-> b[m][i] * b[m][j]], DOMAIN b)

\* Mutant: shape[1], the number of columns, in place of shape[0].
PctBaseColumns(b) == Cardinality(Columns(b))

PctBase(b) == Cardinality(DOMAIN b)

CoOccurrencePct(b, top) ==
    [p \in top \X top |-> <<CoOccurrence(b, p[1], p[2]) * 100, PctBase(b)>>]

(***************************************************************************)
(* Tab 7, recommendations.                                                 *)
(***************************************************************************)
\* fraction f >= h hundredths (denominators are positive)
AtLeast(f, h) == f[1] * 100 >= h * f[2]

FracGreater(f, g) == f[1] * g[2] > g[1] * f[2]

FracEqual(f, g) == f[1] * g[2] = g[1] * f[2]

\* Mutant: any(item in x for item in selected_items), a substring test.
AntecedentMatchesSubstring(x, sel) == \E item \in sel : Contains(x, item)

\* any(item in x.split(", ") for item in selected_items)
AntecedentMatches(x, sel) == \E item \in sel : item \in Range(Split(x))

PassesFilter(r, sel, mc, ml) ==
    /\ AntecedentMatches(r.antecedents, sel)
    /\ AtLeast(r.confidence, mc)
    /\ AtLeast(r.lift, ml)

RecommendedRules(rs, sel, mc, ml) ==
    SelectSeq(rs, LAMBDA r : PassesFilter(r, sel, mc, ml))

\* Mutant: ascending=True.
SortsBeforeAscending(a, b) ==
    \/ FracGreater(b.confidence, a.confidence)
    \/ /\ FracEqual(a.confidence, b.confidence)
       /\ FracGreater(b.lift, a.lift)

\* sort_values(by=['confidence','lift'], ascending=False): a comes before b
SortsBefore(a, b) ==
    \/ FracGreater(a.confidence, b.confidence)
    \/ /\ FracEqual(a.confidence, b.confidence)
       /\ FracGreater(a.lift, b.lift)

\* Rows with equal keys keep the order of the table (a stable sort).
InsertSorted(q, r) ==
    LET before == {k \in 1..Len(q) : SortsBefore(r, q[k])}
        at == IF before = {} THEN Len(q) + 1
              ELSE CHOOSE k \in before : \A j \in before : k <= j
    IN  SubSeq(q, 1, at - 1) \o <<r>> \o SubSeq(q, at, Len(q))

RECURSIVE SortRules(_)
SortRules(rs) ==
    IF Len(rs) = 0 THEN <<>>
    ELSE InsertSorted(SortRules(SubSeq(rs, 1, Len(rs) - 1)), rs[Len(rs)])

HeadRows(q, n) == SubSeq(q, 1, Min(n, Len(q)))

TopRecsOf(rs) == HeadRows(SortRules(rs), TopRecs)

ConsequentTokens(r) == Range(Split(r.consequents))

SuggestedItems(top, sel) ==
    UNION {ConsequentTokens(top[k]) : k \in DOMAIN top} \ sel

\* Mutant: one notice for both empty outcomes.
RecNoticeMerged(sel, rec) ==
    IF sel = {} \/ Len(rec) = 0 THEN "select_items" ELSE ""

\* What tab 7 shows in place of a table: the prompt to select items, the
\* "No recommendations found" notice, or nothing (the table is shown).
RecNotice(sel, rec) ==
    IF sel = {} THEN "select_items"
    ELSE IF Len(rec) = 0 THEN "no_recommendations"
    ELSE ""

(***************************************************************************)
(* One run of the script, top to bottom, as the set of states it can end   *)
(* in.  The arguments are the loaded data, the widget values of the run    *)
(* and the memo table of the server process.                               *)
(*                                                                         *)
(* The multiselect of tab 7 takes its options from the basket columns: the *)
(* framework identifies a widget by its label and options, so a selection  *)
(* survives a rerun only while the options are the same.  A run that       *)
(* raises shows the exception and does not render the tabs; their widgets  *)
(* start from their defaults when they are rendered again.                 *)
(***************************************************************************)
Multiselect(options, prev_options, value) ==
    IF options = prev_options THEN value ELSE {}

NoCounts == [c \in {} |-> 0]

NoCells == [p \in {} |-> <<0, 1>>]

RunScript(d, range, side, prev_options, sel, mc, ml, cch) ==
    LET fd == FilterData(d, range, side)
        b == Basket(fd)
        cols == Columns(b)
        key == CacheKey(b)
        chosen == Multiselect(cols, prev_options, sel)
        raised ==
            [data |-> d, date_range |-> range,
             selected_items_sidebar |-> side, filtered_data |-> fd,
             basket_oh |-> b, item_cols_filtered |-> cols,
             cache |-> cch, rules |-> <<>>, status |-> "exception",
             repeat_status |-> NoCounts, top_items |-> {},
             co_occurrence_pct |-> NoCells, selected_items |-> {},
             min_conf |-> DefaultMinConf, min_lift |-> DefaultMinLift,
             matcher_ran |-> FALSE, recommended_rules |-> <<>>,
             top_recs |-> <<>>, suggested_items |-> {}, notice |-> ""]
        Tabs(rs, cch2, top) ==
            LET rec == IF chosen # {}
                       THEN RecommendedRules(rs, chosen, mc, ml)
                       ELSE <<>>
                shown == IF Len(rec) > 0 THEN TopRecsOf(rec) ELSE <<>>
            IN  [data |-> d, date_range |-> range,
                 selected_items_sidebar |-> side, filtered_data |-> fd,
                 basket_oh |-> b, item_cols_filtered |-> cols,
                 cache |-> cch2, rules |-> rs, status |-> "ok",
                 repeat_status |-> RepeatStatus(fd), top_items |-> top,
                 co_occurrence_pct |-> CoOccurrencePct(b, top),
                 selected_items |-> chosen, min_conf |-> mc, min_lift |-> ml,
                 matcher_ran |-> (chosen # {}),
                 recommended_rules |-> rec, top_recs |-> shown,
                 suggested_items |-> IF Len(rec) > 0
                                     THEN SuggestedItems(shown, chosen)
                                     ELSE {},
                 notice |-> RecNotice(chosen, rec)]
    IN  IF key \in DOMAIN cch
        THEN {Tabs(cch[key], cch, top) : top \in TopItemSets(b)}
        ELSE IF RulesRaise(b)
        THEN {raised}
        ELSE {Tabs(rs, CachePut(cch, key, rs), top) :
                  rs \in {GenerateRules(b, ord) : ord \in SetOrders},
                  top \in TopItemSets(b)}

Becomes(o) ==
    /\ data' = o.data
    /\ date_range' = o.date_range
    /\ selected_items_sidebar' = o.selected_items_sidebar
    /\ filtered_data' = o.filtered_data
    /\ basket_oh' = o.basket_oh
    /\ item_cols_filtered' = o.item_cols_filtered
    /\ cache' = o.cache
    /\ rules' = o.rules
    /\ status' = o.status
    /\ repeat_status' = o.repeat_status
    /\ top_items' = o.top_items
    /\ co_occurrence_pct' = o.co_occurrence_pct
    /\ selected_items' = o.selected_items
    /\ min_conf' = o.min_conf
    /\ min_lift' = o.min_lift
    /\ matcher_ran' = o.matcher_ran
    /\ recommended_rules' = o.recommended_rules
    /\ top_recs' = o.top_recs
    /\ suggested_items' = o.suggested_items
    /\ notice' = o.notice

\* A new server process and session: defaults everywhere, nothing memoized.
FirstRun(d) ==
    RunScript(d, <<MinDate(d), MaxDate(d)>>, {}, {}, {},
              DefaultMinConf, DefaultMinLift, NoCache)

Rerun(range, side, sel, mc, ml) ==
    \E o \in RunScript(data, range, side, item_cols_filtered, sel, mc, ml, cache) :
        /\ Cardinality(DOMAIN o.cache) <= MaxCacheEntries
        /\ Becomes(o)

DateRanges == {r \in Dates \X Dates : r[1] <= r[2]}

Starts(D) ==
    \E d \in D : \E o \in FirstRun(d) :
        /\ data = o.data
        /\ date_range = o.date_range
        /\ selected_items_sidebar = o.selected_items_sidebar
        /\ filtered_data = o.filtered_data
        /\ basket_oh = o.basket_oh
        /\ item_cols_filtered = o.item_cols_filtered
        /\ cache = o.cache
        /\ rules = o.rules
        /\ status = o.status
        /\ repeat_status = o.repeat_status
        /\ top_items = o.top_items
        /\ co_occurrence_pct = o.co_occurrence_pct
        /\ selected_items = o.selected_items
        /\ min_conf = o.min_conf
        /\ min_lift = o.min_lift
        /\ matcher_ran = o.matcher_ran
        /\ recommended_rules = o.recommended_rules
        /\ top_recs = o.top_recs
        /\ suggested_items = o.suggested_items
        /\ notice = o.notice

SetDateRange(r) ==
    /\ r # date_range
    /\ Rerun(r, selected_items_sidebar, selected_items, min_conf, min_lift)

SetSidebarItems(S) ==
    /\ S # selected_items_sidebar
    /\ Rerun(date_range, S, selected_items, min_conf, min_lift)

SelectBasketItems(S) ==
    /\ status = "ok"
    /\ S # selected_items
    /\ Rerun(date_range, selected_items_sidebar, S, min_conf, min_lift)

SetMinConf(c) ==
    /\ status = "ok"
    /\ c # min_conf
    /\ Rerun(date_range, selected_items_sidebar, selected_items, c, min_lift)

SetMinLift(l) ==
    /\ status = "ok"
    /\ l # min_lift
    /\ Rerun(date_range, selected_items_sidebar, selected_items, min_conf, l)

Init == Starts(DataSets)

InitRecs == Starts(RichDataSets)

Restart == \E o \in FirstRun(data) : Becomes(o)

Next ==
    \/ \E r \in DateRanges : SetDateRange(r)
    \/ \E S \in SUBSET item_cols(data) : SetSidebarItems(S)
    \/ \E S \in SUBSET item_cols_filtered : SelectBasketItems(S)
    \/ \E c \in ConfChoices : SetMinConf(c)
    \/ \E l \in LiftChoices : SetMinLift(l)
    \/ Restart

Spec == Init /\ [][Next]_vars

\* The recommendation tab alone, on files with a full basket: the sidebar
\* stays at its defaults.
NextRecs ==
    \/ \E S \in SUBSET item_cols_filtered : SelectBasketItems(S)
    \/ \E c \in ConfChoices : SetMinConf(c)
    \/ \E l \in LiftChoices : SetMinLift(l)
    \/ Restart

SpecRecs == InitRecs /\ [][NextRecs]_vars

(***************************************************************************)
(*                              Properties                                 *)
(***************************************************************************)
RowsOf(fd, m) == {r \in DOMAIN fd : r.Member_number = m}

Buyers(fd, x) ==
    {m \in {r.Member_number : r \in DOMAIN fd} :
        \A i \in x : \E r \in RowsOf(fd, m) : r.itemDescription = i}

\* C1. Basket encoding: the basket matrix has one row per distinct
\* transaction key of the filtered rows and one column per distinct item
\* label; a cell is 1 if the item occurs in the transaction and 0 if not,
\* never a count; the sum of a column is the number of transactions that
\* hold the item.  The same for the offline script's boolean basket, keyed
\* by customer and date.
C1_BasketEncoding ==
    /\ DOMAIN basket_oh = {r.Member_number : r \in DOMAIN filtered_data}
    /\ \A m \in DOMAIN basket_oh :
        /\ DOMAIN basket_oh[m] = {r.itemDescription : r \in DOMAIN filtered_data}
        /\ \A i \in DOMAIN basket_oh[m] :
            /\ basket_oh[m][i] \in {0, 1}
            /\ basket_oh[m][i] = 1 <=>
                   \E r \in DOMAIN filtered_data :
                       r.Member_number = m /\ r.itemDescription = i
    /\ \A i \in item_cols_filtered :
           ItemFreq(basket_oh, i) = Cardinality(Buyers(filtered_data, {i}))
    /\ LET bk == basket(data)
       IN  /\ DOMAIN bk = {<<r.Member_number, "_", r.Date>> : r \in DOMAIN data}
           /\ \A t \in DOMAIN bk :
               /\ DOMAIN bk[t] = {r.itemDescription : r \in DOMAIN data}
               /\ \A i \in DOMAIN bk[t] :
                      bk[t][i] <=>
                          \E r \in DOMAIN data :
                              /\ r.Member_number = t[1] /\ r.Date = t[3]
                              /\ r.itemDescription = i

\* C1 witness: an item bought more than once by one customer, whose cell
\* is 1.
C1_Witness ==
    \E m \in DOMAIN basket_oh : \E i \in item_cols_filtered :
        GroupCount(filtered_data, m, i) > 1 /\ basket_oh[m][i] = 1

\* C2. Recommendation matcher: with a non-empty selection, every rule
\* returned is a rule of the table whose antecedent text, split on ", ",
\* holds a selected item as a whole label, and whose confidence and lift
\* reach the two minimums; the displayed rows are among the rules returned.
C2_MatcherSound ==
    matcher_ran =>
        /\ \A k \in DOMAIN recommended_rules :
               LET r == recommended_rules[k]
               IN  /\ r \in Range(rules)
                   /\ Range(Split(r.antecedents)) \cap selected_items # {}
                   /\ r.confidence[1] * 100 >= min_conf * r.confidence[2]
                   /\ r.lift[1] * 100 >= min_lift * r.lift[2]
        /\ Range(top_recs) \subseteq Range(recommended_rules)

\* C2 witness: some rules are returned, one rule is left out because no
\* selected item is a label of its antecedent although a selected item is a
\* substring of it, and one is left out by a threshold.
C2_Witness ==
    /\ matcher_ran
    /\ Len(recommended_rules) > 0
    /\ \E r \in Range(rules) \ Range(recommended_rules) :
           /\ Range(Split(r.antecedents)) \cap selected_items = {}
           /\ \E item \in selected_items : Contains(r.antecedents, item)
    /\ \E r \in Range(rules) \ Range(recommended_rules) :
           /\ Range(Split(r.antecedents)) \cap selected_items # {}
           /\ r.confidence[1] * 100 < min_conf * r.confidence[2]

KeyHigher(r, s) ==
    \/ r.confidence[1] * s.confidence[2] > s.confidence[1] * r.confidence[2]
    \/ /\ r.confidence[1] * s.confidence[2] = s.confidence[1] * r.confidence[2]
       /\ r.lift[1] * s.lift[2] > s.lift[1] * r.lift[2]

\* C3. Recommendation ranking: the displayed rows are matching rules, each
\* once, at most 10 of them and all of them when there are no more than 10,
\* in descending order of (confidence, lift); no matching rule that is left
\* out has a strictly higher (confidence, lift) than a displayed one.
C3_Ranking ==
    /\ Len(top_recs) = Min(TopRecs, Len(recommended_rules))
    /\ Range(top_recs) \subseteq Range(recommended_rules)
    /\ \A j, k \in DOMAIN top_recs :
           j < k => /\ top_recs[j] # top_recs[k]
                    /\ ~KeyHigher(top_recs[k], top_recs[j])
    /\ \A r \in Range(recommended_rules) \ Range(top_recs) :
           \A s \in Range(top_recs) : ~KeyHigher(r, s)

\* C3 witness: more than 10 rules match, and a rule that is left out ranks
\* strictly below a displayed one.
C3_Witness ==
    /\ Len(recommended_rules) > TopRecs
    /\ \E r \in Range(recommended_rules) \ Range(top_recs) :
           \E s \in Range(top_recs) : KeyHigher(s, r)

\* C4. Suggested items: whenever recommendations are displayed, the
\* suggested items are the consequent item labels of the displayed rules,
\* without the selected items.
C4_SuggestedItems ==
    Len(top_recs) > 0 =>
        suggested_items =
            UNION {top_recs[k].cons_items : k \in DOMAIN top_recs}
                \ selected_items

Passing(r) ==
    /\ Range(Split(r.antecedents)) \cap selected_items # {}
    /\ r.confidence[1] * 100 >= min_conf * r.confidence[2]
    /\ r.lift[1] * 100 >= min_lift * r.lift[2]

NothingSelected ==
    /\ notice = "select_items"
    /\ ~matcher_ran
    /\ Len(recommended_rules) = 0
    /\ Len(top_recs) = 0

NoRecommendations ==
    /\ notice = "no_recommendations"
    /\ matcher_ran
    /\ Len(top_recs) = 0

RuleList ==
    /\ notice = ""
    /\ matcher_ran
    /\ Len(top_recs) > 0

\* C5. Recommendation outcomes: with a rule table, an empty selection gives
\* the "nothing selected" notice and the rules are not evaluated, a
\* selection that no rule passes gives the "no recommendations" notice, a
\* selection that some rule passes gives a rule list; exactly one of the
\* three happens, and the run does not raise.
C5_Outcomes ==
    status = "ok" =>
        /\ selected_items = {} => NothingSelected
        /\ (selected_items # {} /\ ~\E r \in Range(rules) : Passing(r))
               => NoRecommendations
        /\ (selected_items # {} /\ \E r \in Range(rules) : Passing(r))
               => RuleList
        /\ Cardinality({x \in {"n", "e", "l"} :
                           \/ x = "n" /\ NothingSelected
                           \/ x = "e" /\ NoRecommendations
                           \/ x = "l" /\ RuleList}) = 1

\* C5 witness: a selection, a rule table with rules, and no rule passing.
C5_Witness ==
    /\ status = "ok"
    /\ selected_items # {}
    /\ Len(rules) > 0
    /\ NoRecommendations

\* C6. Empty filtered data: when the filters leave no rows, the run ends
\* normally and shows a "no data" notice.
C6_EmptyDataNotice ==
    DOMAIN filtered_data = {} => (status = "ok" /\ notice = "no_data")

CountOf(class) ==
    IF class \in DOMAIN repeat_status THEN repeat_status[class] ELSE 0

RepeatCustomers(fd) ==
    {m \in {r.Member_number : r \in DOMAIN fd} :
        Cardinality({r.Date : r \in RowsOf(fd, m)}) > 1}

\* C7. Repeat and first-time customers: a customer counts as "Repeat" if and
\* only if they have more than one distinct transaction (purchases on two or
\* more dates) in the filtered rows, and as "First-time" otherwise.
C7_RepeatCustomers ==
    status = "ok" =>
        /\ CountOf("Repeat") = Cardinality(RepeatCustomers(filtered_data))
        /\ CountOf("First-time") =
               Cardinality({r.Member_number : r \in DOMAIN filtered_data}
                               \ RepeatCustomers(filtered_data))

\* C8. Co-occurrence matrix: its items are the top 20 by frequency; cell
\* (i, j) is the number of basket rows that hold both i and j, as a
\* percentage of the number of basket rows; the matrix is symmetric and
\* cell (i, i) is the frequency of i.
C8_CoOccurrence ==
    status = "ok" =>
        LET n == Cardinality({r.Member_number : r \in DOMAIN filtered_data})
        IN  /\ top_items \subseteq item_cols_filtered
            /\ Cardinality(top_items) =
                   Min(TopCoItems, Cardinality(item_cols_filtered))
            /\ \A i \in top_items : \A j \in item_cols_filtered \ top_items :
                   Cardinality(Buyers(filtered_data, {i}))
                       >= Cardinality(Buyers(filtered_data, {j}))
            /\ DOMAIN co_occurrence_pct = top_items \X top_items
            /\ \A i, j \in top_items :
                /\ co_occurrence_pct[<<i, j>>] =
                       <<100 * Cardinality(Buyers(filtered_data, {i, j})), n>>
                /\ co_occurrence_pct[<<i, j>>] = co_occurrence_pct[<<j, i>>]
            /\ \A i \in top_items :
                   co_occurrence_pct[<<i, i>>] =
                       <<100 * ItemFreq(basket_oh, i), n>>

\* C8 witness: a matrix of two items that a customer bought together.
C8_Witness ==
    /\ status = "ok"
    /\ \E i, j \in top_items :
           /\ i # j
           /\ co_occurrence_pct[<<i, j>>] = <<100, 1>>
           /\ co_occurrence_pct[<<i, i>>] = <<100, 1>>

\* C9. Rule text is deterministic: whenever the script is run again, a rule
\* with the same antecedent and consequent item sets has the same antecedent
\* and consequent text.
C9_SameTextEveryRun ==
    [][\A k \in DOMAIN rules : \A j \in DOMAIN rules' :
           (/\ rules[k].ante_items = rules'[j].ante_items
            /\ rules[k].cons_items = rules'[j].cons_items)
               => /\ rules[k].antecedents = rules'[j].antecedents
                  /\ rules[k].consequents = rules'[j].consequents]_vars

PossibleRules(b) == {GenerateRules(b, ord) : ord \in SetOrders}

Fresh ==
    /\ filtered_data = FilterData(data, date_range, selected_items_sidebar)
    /\ basket_oh = Basket(filtered_data)
    /\ item_cols_filtered = Columns(basket_oh)
    /\ selected_items \subseteq item_cols_filtered
    /\ status = "ok" => rules \in PossibleRules(basket_oh)
    /\ status = "ok" => Range(recommended_rules) \subseteq Range(rules)

ThresholdChange ==
    \/ \E c \in ConfChoices : SetMinConf(c)
    \/ \E l \in LiftChoices : SetMinLift(l)

\* C10. Freshness under memoization: after every interaction the basket
\* matrix, the selectable items and the rule table are those of the
\* currently filtered rows, and a change of a threshold alone changes
\* neither the basket matrix nor the rule table.
C10_Freshness ==
    /\ []Fresh
    /\ [][ThresholdChange =>
              /\ basket_oh' = basket_oh
              /\ item_cols_filtered' = item_cols_filtered
              /\ rules' = rules]_vars

\* C10 witness: the process has memoized two basket matrices, the thresholds
\* were changed, and the current rule table has rules.
C10_Witness ==
    /\ status = "ok"
    /\ Cardinality(DOMAIN cache) = 2
    /\ min_conf # DefaultMinConf
    /\ min_lift # DefaultMinLift
    /\ Len(rules) > 0

====
